---- MODULE Spec2Model ----
(***************************************************************************)
(* Model of mailgun-mcp.js: the Mailgun MCP server.                        *)
(*                                                                         *)
(* Strings are sequences of one-character strings, so that the text        *)
(* functions of the program (encodeURIComponent, URLSearchParams,          *)
(* String.replace, toUpperCase, the identifier regexes) are computed       *)
(* character by character as the code computes them.                       *)
(***************************************************************************)
EXTENDS Integers, Sequences, FiniteSets, TLC

\* ------------------------------------------------------------------ bounds

\* Longest argument mapping handed to a tool call.
MaxArgs == 2

\* Most segments of a reference pointer.
MaxRefDepth == 4

\* ----------------------------------------------------------------- strings

Lowers == <<"a","b","c","d","e","f","g","h","i","j","k","l","m",
            "n","o","p","q","r","s","t","u","v","w","x","y","z">>

Uppers == <<"A","B","C","D","E","F","G","H","I","J","K","L","M",
            "N","O","P","Q","R","S","T","U","V","W","X","Y","Z">>

Digits == <<"0","1","2","3","4","5","6","7","8","9">>

Range(s) == { s[i] : i \in DOMAIN s }

PosIn(s, c) == CHOOSE i \in DOMAIN s : s[i] = c

\* One character of String.prototype.toUpperCase.
UpperChar(c) == IF c \in Range(Lowers) THEN Uppers[PosIn(Lowers, c)] ELSE c

\* One character of String.prototype.toLowerCase.
LowerChar(c) == IF c \in Range(Uppers) THEN Lowers[PosIn(Uppers, c)] ELSE c

toUpperCase(s) == [i \in DOMAIN s |-> UpperChar(s[i])]

toLowerCase(s) == [i \in DOMAIN s |-> LowerChar(s[i])]

\* The regex class \w.
IsWordChar(c) == c \in Range(Lowers) \cup Range(Uppers) \cup Range(Digits) \cup {"_"}

RECURSIVE Flatten(_)
\* Concatenation of a sequence of strings.
Flatten(ss) == IF ss = <<>> THEN <<>> ELSE Head(ss) \o Flatten(Tail(ss))

\* Smallest index at which pat occurs in s, 0 when it does not occur.
IndexOf(s, pat) ==
  LET hits == { i \in 1..(Len(s) - Len(pat) + 1) : SubSeq(s, i, i + Len(pat) - 1) = pat }
  IN  IF hits = {} THEN 0 ELSE CHOOSE i \in hits : \A j \in hits : i <= j

\* String.prototype.replace with a string pattern: the first occurrence only.
ReplaceFirst(s, pat, rep) ==
  LET i == IndexOf(s, pat)
  IN  IF i = 0 THEN s
      ELSE SubSeq(s, 1, i - 1) \o rep \o SubSeq(s, i + Len(pat), Len(s))

\* Index of the first "}" of t.
CloseAt(t) == CHOOSE j \in DOMAIN t : t[j] = "}" /\ \A k \in 1..(j - 1) : t[k] # "}"

\* Percent codes of the characters outside the unreserved sets below.
PercentCode(c) ==
  CASE c = " " -> <<"%","2","0">>
    [] c = "!" -> <<"%","2","1">>
    [] c = "#" -> <<"%","2","3">>
    [] c = "$" -> <<"%","2","4">>
    [] c = "%" -> <<"%","2","5">>
    [] c = "&" -> <<"%","2","6">>
    [] c = "'" -> <<"%","2","7">>
    [] c = "(" -> <<"%","2","8">>
    [] c = ")" -> <<"%","2","9">>
    [] c = "+" -> <<"%","2","B">>
    [] c = "," -> <<"%","2","C">>
    [] c = "/" -> <<"%","2","F">>
    [] c = ":" -> <<"%","3","A">>
    [] c = "=" -> <<"%","3","D">>
    [] c = "?" -> <<"%","3","F">>
    [] c = "@" -> <<"%","4","0">>
    [] c = "{" -> <<"%","7","B">>
    [] c = "}" -> <<"%","7","D">>
    [] c = "~" -> <<"%","7","E">>

\* encodeURIComponent leaves A-Z a-z 0-9 - _ . ! ~ * ' ( ) alone.
UriUnreserved(c) == IsWordChar(c) \/ c \in {"-", ".", "!", "~", "*", "'", "(", ")"}

encodeURIComponentStr(s) ==
  Flatten([i \in DOMAIN s |-> IF UriUnreserved(s[i]) THEN <<s[i]>> ELSE PercentCode(s[i])])

\* URLSearchParams serialises with application/x-www-form-urlencoded: A-Z a-z
\* 0-9 * - . _ are left alone, a space becomes +, the rest is percent-encoded.
FormEncode(s) ==
  Flatten([i \in DOMAIN s |->
             IF IsWordChar(s[i]) \/ s[i] \in {"*", "-", "."} THEN <<s[i]>>
             ELSE IF s[i] = " " THEN <<"+">>
             ELSE PercentCode(s[i])])

\* ------------------------------------------------------------ JS values

\* An argument value: a string, a number, null or undefined.
StrV(s) == [t |-> "string", s |-> s, n |-> 0]

NumV(n) == [t |-> "number", s |-> <<>>, n |-> n]

NullV == [t |-> "null", s |-> <<>>, n |-> 0]

UndefinedV == [t |-> "undefined", s |-> <<>>, n |-> 0]

\* The truthiness of a value, as an if (v) tests it.
Truthy(v) ==
  CASE v.t = "string" -> v.s # <<>>
    [] v.t = "number" -> v.n # 0
    [] OTHER -> FALSE

RECURSIVE NatToString(_)
NatToString(n) ==
  IF n < 10 THEN <<Digits[n + 1]>>
  ELSE NatToString(n \div 10) \o <<Digits[(n % 10) + 1]>>

\* value.toString() / String(value) of a string or a number.
ToStr(v) == IF v.t = "string" THEN v.s ELSE NatToString(v.n)

\* An argument mapping is the sequence of its entries in key order.
Entry(k, v) == [k |-> k, v |-> v]

Keys(m) == { m[i].k : i \in DOMAIN m }

HasKey(m, k) == k \in Keys(m)

\* m[k]: the value of key k, undefined when m has no such key.
Get(m, k) == IF HasKey(m, k) THEN (m[CHOOSE i \in DOMAIN m : m[i].k = k]).v ELSE UndefinedV

\* delete m[k]
Delete(m, k) == SelectSeq(m, LAMBDA e : e.k # k)

\* m[k] = v: an existing key keeps its place, a new key goes last.
Put(m, k, v) ==
  IF HasKey(m, k) THEN [i \in DOMAIN m |-> IF m[i].k = k THEN Entry(k, v) ELSE m[i]]
  ELSE Append(m, Entry(k, v))

RECURSIVE ObjectAssign(_, _)
\* Object.assign(target, source)
ObjectAssign(target, source) ==
  IF source = <<>> THEN target
  ELSE ObjectAssign(Put(target, Head(source).k, Head(source).v), Tail(source))

\* ------------------------------------------------------ parameter pipeline

\* A declared parameter of an operation: { name, in }.
Param(name, loc) == [name |-> name, in |-> loc]

\* operation.parameters?.filter(p => p.in === loc) || []
ParamsIn(operation, loc) == SelectSeq(operation.parameters, LAMBDA p : p.in = loc)

MissingMessage(name) == <<"Required path parameter '">> \o name \o <<"' is missing">>

RECURSIVE PathLoop(_, _, _, _)
\* The for loop of processPathParameters over the path parameters left.
PathLoop(pathParams, params, actualPath, remainingParams) ==
  IF pathParams = <<>>
  THEN [threw |-> FALSE, message |-> <<>>,
        actualPath |-> actualPath, remainingParams |-> remainingParams]
  ELSE LET name == Head(pathParams).name
       IN  IF Truthy(Get(params, name))
           THEN PathLoop(Tail(pathParams), params,
                         ReplaceFirst(actualPath, <<"{">> \o name \o <<"}">>,
                                      encodeURIComponentStr(ToStr(Get(params, name)))),
                         Delete(remainingParams, name))
           ELSE [threw |-> TRUE, message |-> MissingMessage(name),
                 actualPath |-> actualPath, remainingParams |-> remainingParams]

processPathParameters(path, operation, params) ==
  PathLoop(ParamsIn(operation, "path"), params, path, params)

\* separateParameters without its GET merge.
separateParametersNoMerge(params, operation, method) ==
  LET defined == { p.name : p \in Range(ParamsIn(operation, "query")) }
  IN  [queryParams |-> SelectSeq(params, LAMBDA e : e.k \in defined),
       bodyParams |-> SelectSeq(params, LAMBDA e : e.k \notin defined)]

\* separateParameters: the routing loop, then the GET merge.
separateParameters(params, operation, method) ==
  LET defined == { p.name : p \in Range(ParamsIn(operation, "query")) }
      queryParams == SelectSeq(params, LAMBDA e : e.k \in defined)
      bodyParams == SelectSeq(params, LAMBDA e : e.k \notin defined)
  IN  IF toUpperCase(method) = <<"G","E","T">>
      THEN [queryParams |-> ObjectAssign(queryParams, bodyParams), bodyParams |-> <<>>]
      ELSE [queryParams |-> queryParams, bodyParams |-> bodyParams]

RECURSIVE JoinPairs(_)
\* URLSearchParams.toString(): name=value pairs joined by &.
JoinPairs(pairs) ==
  IF pairs = <<>> THEN <<>>
  ELSE FormEncode(Head(pairs).k) \o <<"=">> \o FormEncode(Head(pairs).s)
       \o (IF Tail(pairs) = <<>> THEN <<>> ELSE <<"&">> \o JoinPairs(Tail(pairs)))

\* appendQueryString without its test for an empty mapping.
appendQueryStringAlways(path, queryParams) ==
  LET present == SelectSeq(queryParams, LAMBDA e : e.v.t \notin {"undefined", "null"})
      pairs == [i \in DOMAIN present |-> [k |-> present[i].k, s |-> ToStr(present[i].v)]]
  IN  path \o <<"?">> \o JoinPairs(pairs)

appendQueryString(path, queryParams) ==
  IF Len(queryParams) = 0 THEN path
  ELSE LET present == SelectSeq(queryParams, LAMBDA e : e.v.t \notin {"undefined", "null"})
           pairs == [i \in DOMAIN present |-> [k |-> present[i].k, s |-> ToStr(present[i].v)]]
       IN  path \o <<"?">> \o JoinPairs(pairs)

\* ------------------------------------------------------------ documents

\* A parsed YAML/JSON value is a tree: a function from key paths (sequences of
\* keys, each key a string) to nodes; <<>> is the root. The function with the
\* empty domain is the JS value undefined.
Node(k, s, n) == [k |-> k, s |-> s, n |-> n]

Undefined == [p \in {} |-> Node("", <<>>, 0)]

IsUndefined(t) == DOMAIN t = {}

JString(s) == [p \in {<<>>} |-> Node("string", s, 0)]

JNumber(n) == [p \in {<<>>} |-> Node("number", <<>>, n)]

JBool(b) == [p \in {<<>>} |-> Node("boolean", <<>>, IF b THEN 1 ELSE 0)]

JNull == [p \in {<<>>} |-> Node("null", <<>>, 0)]

\* An object from its fields, a sequence of <<key, tree>> pairs.
JObject(fields) ==
  [p \in {<<>>} \cup UNION { { <<fields[i][1]>> \o q : q \in DOMAIN fields[i][2] } : i \in DOMAIN fields }
     |-> IF p = <<>> THEN Node("object", <<>>, 0)
         ELSE LET i == CHOOSE i \in DOMAIN fields : fields[i][1] = Head(p)
              IN  fields[i][2][Tail(p)]]

\* An array from its items: the keys are the decimal indices.
JArray(items) ==
  [p \in {<<>>} \cup UNION { { <<NatToString(i - 1)>> \o q : q \in DOMAIN items[i] } : i \in DOMAIN items }
     |-> IF p = <<>> THEN Node("array", <<>>, Len(items))
         ELSE LET i == CHOOSE i \in DOMAIN items : NatToString(i - 1) = Head(p)
              IN  items[i][Tail(p)]]

IsPrefix(p, q) == Len(p) <= Len(q) /\ SubSeq(q, 1, Len(p)) = p

\* The subtree of t at path p; undefined when t has no node there.
SubTree(t, p) ==
  [q \in { SubSeq(r, Len(p) + 1, Len(r)) : r \in { r \in DOMAIN t : IsPrefix(p, r) } } |-> t[p \o q]]

Kind(t) == IF IsUndefined(t) THEN "undefined" ELSE t[<<>>].k

\* Whether t[key] throws a TypeError: a property read of undefined or null.
ReadThrows(t) == Kind(t) \in {"undefined", "null"}

\* t[key] for a t that can be read: an own property, or undefined.
Prop(t, key) == SubTree(t, <<key>>)

\* The own keys of an object or array.
OwnKeys(t) == { p[1] : p \in { p \in DOMAIN t : Len(p) = 1 } }

\* The truthiness of a document value.
TruthyTree(t) ==
  CASE Kind(t) \in {"undefined", "null"} -> FALSE
    [] Kind(t) = "string" -> t[<<>>].s # <<>>
    [] Kind(t) \in {"number", "boolean"} -> t[<<>>].n # 0
    [] OTHER -> TRUE

\* The string value of a string node.
StringOf(t) == t[<<>>].s

\* An array's items in order.
ItemsOf(t) == [i \in 1..t[<<>>].n |-> Prop(t, NatToString(i - 1))]

RECURSIVE Split(_, _)
\* String.prototype.split on a one-character separator.
Split(s, sep) ==
  IF \A i \in DOMAIN s : s[i] # sep THEN <<s>>
  ELSE LET i == CHOOSE i \in DOMAIN s : s[i] = sep /\ \A j \in 1..(i - 1) : s[j] # sep
       IN  <<SubSeq(s, 1, i - 1)>> \o Split(SubSeq(s, i + 1, Len(s)), sep)

RECURSIVE ReduceLookup(_, _)
\* refPath.reduce((obj, path) => obj[path], start)
ReduceLookup(start, refPath) ==
  IF refPath = <<>> THEN [threw |-> FALSE, value |-> start]
  ELSE IF ReadThrows(start) THEN [threw |-> TRUE, value |-> Undefined]
  ELSE ReduceLookup(Prop(start, Head(refPath)), Tail(refPath))

resolveReference(ref, openApiSpec) ==
  ReduceLookup(openApiSpec, Split(ReplaceFirst(ref, <<"#", "/">>, <<>>), "/"))

\* -------------------------------------------------------- operation locator

\* The allow-list: "VERB /url/{template}" strings.
endpoints == <<
  <<"P","O","S","T"," ","/","v","3","/","{","d","o","m","a","i","n","_","n","a","m","e","}","/","m","e","s","s","a","g","e","s">>,
  <<"G","E","T"," ","/","v","4","/","d","o","m","a","i","n","s">>,
  <<"G","E","T"," ","/","v","4","/","d","o","m","a","i","n","s","/","{","n","a","m","e","}">>,
  <<"G","E","T"," ","/","v","1","/","d","k","i","m","/","k","e","y","s">>,
  <<"G","E","T"," ","/","v","3","/","d","o","m","a","i","n","s","/","{","n","a","m","e","}","/","s","e","n","d","i","n","g","_","q","u","e","u","e","s">>,
  <<"G","E","T"," ","/","v","5","/","a","c","c","o","u","n","t","s","/","s","u","b","a","c","c","o","u","n","t","s","/","i","p","_","p","o","o","l","s">>,
  <<"G","E","T"," ","/","v","3","/","i","p","s">>,
  <<"G","E","T"," ","/","v","3","/","i","p","s","/","{","i","p","}">>,
  <<"G","E","T"," ","/","v","3","/","i","p","s","/","{","i","p","}","/","d","o","m","a","i","n","s">>,
  <<"G","E","T"," ","/","v","3","/","i","p","_","p","o","o","l","s">>,
  <<"G","E","T"," ","/","v","3","/","i","p","_","p","o","o","l","s","/","{","p","o","o","l","_","i","d","}">>,
  <<"G","E","T"," ","/","v","3","/","i","p","_","p","o","o","l","s","/","{","p","o","o","l","_","i","d","}","/","d","o","m","a","i","n","s">>,
  <<"G","E","T"," ","/","v","3","/","{","d","o","m","a","i","n","_","n","a","m","e","}","/","e","v","e","n","t","s">>,
  <<"G","E","T"," ","/","v","3","/","{","d","o","m","a","i","n","}","/","t","a","g","s">>,
  <<"G","E","T"," ","/","v","3","/","{","d","o","m","a","i","n","}","/","t","a","g">>,
  <<"G","E","T"," ","/","v","3","/","{","d","o","m","a","i","n","}","/","t","a","g","/","s","t","a","t","s","/","a","g","g","r","e","g","a","t","e","s">>,
  <<"G","E","T"," ","/","v","3","/","{","d","o","m","a","i","n","}","/","t","a","g","/","s","t","a","t","s">>,
  <<"G","E","T"," ","/","v","3","/","d","o","m","a","i","n","s","/","{","d","o","m","a","i","n","}","/","t","a","g","/","d","e","v","i","c","e","s">>,
  <<"G","E","T"," ","/","v","3","/","d","o","m","a","i","n","s","/","{","d","o","m","a","i","n","}","/","t","a","g","/","p","r","o","v","i","d","e","r","s">>,
  <<"G","E","T"," ","/","v","3","/","d","o","m","a","i","n","s","/","{","d","o","m","a","i","n","}","/","t","a","g","/","c","o","u","n","t","r","i","e","s">>,
  <<"G","E","T"," ","/","v","3","/","s","t","a","t","s","/","t","o","t","a","l">>,
  <<"G","E","T"," ","/","v","3","/","{","d","o","m","a","i","n","}","/","s","t","a","t","s","/","t","o","t","a","l">>,
  <<"G","E","T"," ","/","v","3","/","s","t","a","t","s","/","t","o","t","a","l","/","d","o","m","a","i","n","s">>,
  <<"G","E","T"," ","/","v","3","/","s","t","a","t","s","/","f","i","l","t","e","r">>,
  <<"G","E","T"," ","/","v","3","/","d","o","m","a","i","n","s","/","{","d","o","m","a","i","n","}","/","l","i","m","i","t","s","/","t","a","g">>,
  <<"G","E","T"," ","/","v","3","/","{","d","o","m","a","i","n","}","/","a","g","g","r","e","g","a","t","e","s","/","p","r","o","v","i","d","e","r","s">>,
  <<"G","E","T"," ","/","v","3","/","{","d","o","m","a","i","n","}","/","a","g","g","r","e","g","a","t","e","s","/","d","e","v","i","c","e","s">>,
  <<"G","E","T"," ","/","v","3","/","{","d","o","m","a","i","n","}","/","a","g","g","r","e","g","a","t","e","s","/","c","o","u","n","t","r","i","e","s">>,
  <<"P","O","S","T"," ","/","v","1","/","a","n","a","l","y","t","i","c","s","/","m","e","t","r","i","c","s">>,
  <<"P","O","S","T"," ","/","v","1","/","a","n","a","l","y","t","i","c","s","/","u","s","a","g","e","/","m","e","t","r","i","c","s">>,
  <<"P","O","S","T"," ","/","v","1","/","a","n","a","l","y","t","i","c","s","/","l","o","g","s">>,
  <<"G","E","T"," ","/","v","3","/","{","d","o","m","a","i","n","I","D","}","/","b","o","u","n","c","e","s","/","{","a","d","d","r","e","s","s","}">>,
  <<"G","E","T"," ","/","v","3","/","{","d","o","m","a","i","n","I","D","}","/","b","o","u","n","c","e","s">>,
  <<"G","E","T"," ","/","v","3","/","{","d","o","m","a","i","n","I","D","}","/","u","n","s","u","b","s","c","r","i","b","e","s","/","{","a","d","d","r","e","s","s","}">>,
  <<"G","E","T"," ","/","v","3","/","{","d","o","m","a","i","n","I","D","}","/","u","n","s","u","b","s","c","r","i","b","e","s">>,
  <<"G","E","T"," ","/","v","3","/","{","d","o","m","a","i","n","I","D","}","/","c","o","m","p","l","a","i","n","t","s","/","{","a","d","d","r","e","s","s","}">>,
  <<"G","E","T"," ","/","v","3","/","{","d","o","m","a","i","n","I","D","}","/","c","o","m","p","l","a","i","n","t","s">>,
  <<"G","E","T"," ","/","v","3","/","{","d","o","m","a","i","n","I","D","}","/","w","h","i","t","e","l","i","s","t","s","/","{","v","a","l","u","e","}">>,
  <<"G","E","T"," ","/","v","3","/","{","d","o","m","a","i","n","I","D","}","/","w","h","i","t","e","l","i","s","t","s">>,
  <<"G","E","T"," ","/","v","3","/","a","c","c","o","u","n","t","s","/","e","m","a","i","l","_","d","o","m","a","i","n","_","s","u","p","p","r","e","s","s","i","o","n","s","/","{","e","m","a","i","l","_","d","o","m","a","i","n","}">>,
  <<"G","E","T"," ","/","v","3","/","r","o","u","t","e","s">>,
  <<"G","E","T"," ","/","v","3","/","r","o","u","t","e","s","/","{","i","d","}">>,
  <<"G","E","T"," ","/","v","3","/","r","o","u","t","e","s","/","m","a","t","c","h">>,
  <<"G","E","T"," ","/","v","3","/","l","i","s","t","s">>,
  <<"G","E","T"," ","/","v","3","/","l","i","s","t","s","/","{","l","i","s","t","_","a","d","d","r","e","s","s","}","/","m","e","m","b","e","r","s">>,
  <<"G","E","T"," ","/","v","3","/","l","i","s","t","s","/","{","l","i","s","t","_","a","d","d","r","e","s","s","}","/","m","e","m","b","e","r","s","/","{","m","e","m","b","e","r","_","a","d","d","r","e","s","s","}">>,
  <<"G","E","T"," ","/","v","3","/","l","i","s","t","s","/","{","l","i","s","t","_","a","d","d","r","e","s","s","}">>,
  <<"G","E","T"," ","/","v","3","/","l","i","s","t","s","/","p","a","g","e","s">>,
  <<"G","E","T"," ","/","v","3","/","l","i","s","t","s","/","{","l","i","s","t","_","a","d","d","r","e","s","s","}","/","m","e","m","b","e","r","s","/","p","a","g","e","s">>,
  <<"G","E","T"," ","/","v","5","/","a","c","c","o","u","n","t","s","/","s","u","b","a","c","c","o","u","n","t","s","/","{","s","u","b","a","c","c","o","u","n","t","_","i","d","}">>,
  <<"G","E","T"," ","/","v","5","/","a","c","c","o","u","n","t","s","/","s","u","b","a","c","c","o","u","n","t","s">>,
  <<"G","E","T"," ","/","v","5","/","a","c","c","o","u","n","t","s","/","l","i","m","i","t","/","c","u","s","t","o","m","/","m","o","n","t","h","l","y">>,
  <<"G","E","T"," ","/","v","1","/","k","e","y","s">>,
  <<"G","E","T"," ","/","v","2","/","i","p","_","w","h","i","t","e","l","i","s","t">>,
  <<"G","E","T"," ","/","v","5","/","u","s","e","r","s">>,
  <<"G","E","T"," ","/","v","5","/","u","s","e","r","s","/","{","u","s","e","r","_","i","d","}">>,
  <<"G","E","T"," ","/","v","5","/","u","s","e","r","s","/","m","e">>
>>

\* s.replace(/[^\w-]/g, '-')
ReplaceNonWord(s) == [i \in DOMAIN s |-> IF IsWordChar(s[i]) \/ s[i] = "-" THEN s[i] ELSE "-"]

\* A mis-written class: /[\w-]/g, the negation lost.
ReplaceWord(s) == [i \in DOMAIN s |-> IF IsWordChar(s[i]) \/ s[i] = "-" THEN "-" ELSE s[i]]

RECURSIVE CollapseHyphens(_)
\* s.replace(/-+/g, '-')
CollapseHyphens(s) ==
  IF s = <<>> THEN <<>>
  ELSE IF Head(s) = "-" /\ Len(s) > 1 /\ s[2] = "-" THEN CollapseHyphens(Tail(s))
  ELSE <<Head(s)>> \o CollapseHyphens(Tail(s))

\* obj?.[key]: undefined for an undefined or null obj, the property otherwise.
OptProp(t, key) == IF Kind(t) \in {"undefined", "null"} THEN Undefined ELSE Prop(t, key)

KeyPaths == <<"p","a","t","h","s">>

\* getOperationDetails looking the verb up as it was given.
getOperationDetailsAsGiven(openApiSpec, method, path) ==
  LET operation == OptProp(OptProp(Prop(openApiSpec, KeyPaths), path), method)
  IN  IF ~TruthyTree(operation)
      THEN [threw |-> FALSE, found |-> FALSE, operation |-> Undefined, operationId |-> <<>>]
      ELSE [threw |-> FALSE, found |-> TRUE, operation |-> operation,
            operationId |-> method \o <<"-">> \o CollapseHyphens(ReplaceNonWord(path))]

\* getOperationDetails: null (found = FALSE) or { operation, operationId };
\* reading .paths of an undefined or null document throws.
getOperationDetails(openApiSpec, method, path) ==
  LET lowerMethod == toLowerCase(method)
      operation == OptProp(OptProp(Prop(openApiSpec, KeyPaths), path), lowerMethod)
  IN  IF ReadThrows(openApiSpec)
      THEN [threw |-> TRUE, found |-> FALSE, operation |-> Undefined, operationId |-> <<>>]
      ELSE IF ~TruthyTree(operation)
      THEN [threw |-> FALSE, found |-> FALSE, operation |-> Undefined, operationId |-> <<>>]
      ELSE [threw |-> FALSE, found |-> TRUE, operation |-> operation,
            operationId |-> method \o <<"-">> \o CollapseHyphens(ReplaceNonWord(path))]

\* sanitizeToolId with the negation of its class lost.
sanitizeToolIdInverted(operationId) == toLowerCase(ReplaceWord(operationId))

sanitizeToolId(operationId) == toLowerCase(ReplaceNonWord(operationId))

\* -------------------------------------------------------- schema translator

KeyRef == <<"$","r","e","f">>

KeyTypeName == <<"t","y","p","e">>

KeyEnum == <<"e","n","u","m">>

KeyFormat == <<"f","o","r","m","a","t">>

KeyDescription == <<"d","e","s","c","r","i","p","t","i","o","n">>

KeyMinimum == <<"m","i","n","i","m","u","m">>

KeyMaximum == <<"m","a","x","i","m","u","m">>

KeyItems == <<"i","t","e","m","s">>

KeyProperties == <<"p","r","o","p","e","r","t","i","e","s">>

KeyRequired == <<"r","e","q","u","i","r","e","d">>

KeyOneOf == <<"o","n","e","O","f">>

KeyAnyOf == <<"a","n","y","O","f">>

KeyParameters == <<"p","a","r","a","m","e","t","e","r","s">>

KeyName == <<"n","a","m","e">>

KeyIn == <<"i","n">>

KeySchema == <<"s","c","h","e","m","a">>

KeyRequestBody == <<"r","e","q","u","e","s","t","B","o","d","y">>

KeyContent == <<"c","o","n","t","e","n","t">>

KeySummary == <<"s","u","m","m","a","r","y">>

StartsWith(s, pre) == Len(pre) <= Len(s) /\ SubSeq(s, 1, Len(pre)) = pre

EndsWith(s, suf) == Len(suf) <= Len(s) /\ SubSeq(s, Len(s) - Len(suf) + 1, Len(s)) = suf

EventSeverityType == <<"E","v","e","n","t","S","e","v","e","r","i","t","y","T","y","p","e">>

\* The string at t[key], the empty string when there is none.
StringAt(t, key) == IF Kind(Prop(t, key)) = "string" THEN StringOf(Prop(t, key)) ELSE <<>>

\* A Zod validator: its type name and what the translator sets on it. parts
\* holds the element validator of an array, the value validator of a record
\* or the options of a union; shape maps an object's keys to their validators.
Zod(typeName) ==
  [typeName |-> typeName, described |-> FALSE, description |-> <<>>,
   values |-> <<>>, email |-> FALSE,
   hasMin |-> FALSE, min |-> 0, hasMax |-> FALSE, max |-> 0,
   optional |-> FALSE, parts |-> <<>>, shape |-> <<>>]

\* validator.describe(text)
Describe(v, text) == [v EXCEPT !.described = TRUE, !.description = text]

\* validator.optional()
Optional(v) == [v EXCEPT !.optional = TRUE]

\* A validator that is not closed over the values: any string passes.
ZodEnumOpen(values) == Zod("ZodString")

\* z.enum(values)
ZodEnum(values) == [Zod("ZodEnum") EXCEPT !.values = values]

\* schema.description || ''
DescriptionOrEmpty(schema) == StringAt(schema, KeyDescription)

\* schema.required?.includes(key)
RequiredIncludes(schema, key) ==
  /\ Kind(Prop(schema, KeyRequired)) = "array"
  /\ \E i \in 1..Prop(schema, KeyRequired)[<<>>].n :
       StringAt(Prop(schema, KeyRequired), NatToString(i - 1)) = key
       /\ Kind(Prop(Prop(schema, KeyRequired), NatToString(i - 1))) = "string"

RECURSIVE openapiToZod(_, _)
RECURSIVE RefWalk(_, _, _, _)

\* The segment loop of the $ref branch: referenced is the fragment reached,
\* refPath the segments left.
RefWalk(referenced, refPath, ref, fullSpec) ==
  IF refPath = <<>> THEN openapiToZod(referenced, fullSpec)
  ELSE IF ~TruthyTree(referenced) \/ ~TruthyTree(Prop(referenced, Head(refPath)))
       THEN IF Head(refPath) = EventSeverityType \/ EndsWith(ref, EventSeverityType)
            THEN Describe(ZodEnum(<<<<"t","e","m","p","o","r","a","r","y">>, <<"p","e","r","m","a","n","e","n","t">>>>),
                          <<"Filter by event severity">>)
            ELSE Describe(Zod("ZodAny"), <<"Failed reference: ">> \o ref)
       ELSE RefWalk(Prop(referenced, Head(refPath)), Tail(refPath), ref, fullSpec)

\* The properties of an object schema, each translated, optional unless required.
ShapeOf(schema, fullSpec) ==
  [key \in OwnKeys(Prop(schema, KeyProperties)) |->
     IF RequiredIncludes(schema, key)
     THEN openapiToZod(Prop(Prop(schema, KeyProperties), key), fullSpec)
     ELSE Optional(openapiToZod(Prop(Prop(schema, KeyProperties), key), fullSpec))]

\* schema.<key>.map(s => openapiToZod(s, fullSpec))
MapToZod(list, fullSpec) == [i \in 1..list[<<>>].n |-> openapiToZod(Prop(list, NatToString(i - 1)), fullSpec)]

openapiToZod(schema, fullSpec) ==
  LET ref == StringAt(schema, KeyRef)
      type == StringAt(schema, KeyTypeName)
      description == DescriptionOrEmpty(schema)
  IN  IF ~TruthyTree(schema) THEN Zod("ZodAny")
      ELSE IF TruthyTree(Prop(schema, KeyRef))
      THEN IF StartsWith(ref, <<"#", "/">>)
           THEN RefWalk(fullSpec, Split(SubSeq(ref, 3, Len(ref)), "/"), ref, fullSpec)
           ELSE Describe(Zod("ZodAny"), <<"Unsupported reference: ">> \o ref)
      ELSE CASE type = <<"s","t","r","i","n","g">> ->
                  IF TruthyTree(Prop(schema, KeyEnum))
                  THEN ZodEnum([i \in 1..Prop(schema, KeyEnum)[<<>>].n |->
                                  StringAt(Prop(schema, KeyEnum), NatToString(i - 1))])
                  ELSE Describe([Zod("ZodString") EXCEPT
                                   !.email = (StringAt(schema, KeyFormat) = <<"e","m","a","i","l">>)],
                                description)
             [] type \in {<<"n","u","m","b","e","r">>, <<"i","n","t","e","g","e","r">>} ->
                  Describe([Zod("ZodNumber") EXCEPT
                              !.hasMin = ~IsUndefined(Prop(schema, KeyMinimum)),
                              !.min = IF Kind(Prop(schema, KeyMinimum)) = "number"
                                      THEN Prop(schema, KeyMinimum)[<<>>].n ELSE 0,
                              !.hasMax = ~IsUndefined(Prop(schema, KeyMaximum)),
                              !.max = IF Kind(Prop(schema, KeyMaximum)) = "number"
                                      THEN Prop(schema, KeyMaximum)[<<>>].n ELSE 0],
                           description)
             [] type = <<"b","o","o","l","e","a","n">> -> Describe(Zod("ZodBoolean"), description)
             [] type = <<"a","r","r","a","y">> ->
                  Describe([Zod("ZodArray") EXCEPT
                              !.parts = <<openapiToZod(Prop(schema, KeyItems), fullSpec)>>],
                           description)
             [] type = <<"o","b","j","e","c","t">> ->
                  IF ~TruthyTree(Prop(schema, KeyProperties))
                  THEN [Zod("ZodRecord") EXCEPT !.parts = <<Zod("ZodAny")>>]
                  ELSE Describe([Zod("ZodObject") EXCEPT !.shape = ShapeOf(schema, fullSpec)],
                                description)
             [] OTHER ->
                  IF TruthyTree(Prop(schema, KeyProperties))
                  THEN Describe([Zod("ZodObject") EXCEPT !.shape = ShapeOf(schema, fullSpec)],
                                description)
                  ELSE IF TruthyTree(Prop(schema, KeyOneOf))
                  THEN Describe([Zod("ZodUnion") EXCEPT
                                   !.parts = MapToZod(Prop(schema, KeyOneOf), fullSpec)],
                                description)
                  ELSE IF TruthyTree(Prop(schema, KeyAnyOf))
                  THEN Describe([Zod("ZodUnion") EXCEPT
                                   !.parts = MapToZod(Prop(schema, KeyAnyOf), fullSpec)],
                                description)
                  ELSE Describe(Zod("ZodAny"), description)

\* ----------------------------------------------------------- tool schemas

\* A parameter schema mapping: argument name -> validator.
EmptySchema == [k \in {} |-> Zod("ZodAny")]

\* paramsSchema[name] = v
SetParam(paramsSchema, name, v) ==
  [k \in DOMAIN paramsSchema \cup {name} |-> IF k = name THEN v ELSE paramsSchema[k]]

\* operation.parameters?.filter(p => p.in === loc) || [] over a document's
\* operation; the filter of a value that is no array throws.
FilterThrows(operation) == Kind(Prop(operation, KeyParameters)) \notin {"array", "undefined", "null"}

ParameterItems(operation, loc) ==
  IF Kind(Prop(operation, KeyParameters)) # "array" THEN <<>>
  ELSE SelectSeq(ItemsOf(Prop(operation, KeyParameters)), LAMBDA p : StringAt(p, KeyIn) = loc)

RECURSIVE processParameters(_, _, _)
processParameters(parameters, paramsSchema, openApiSpec) ==
  IF parameters = <<>> THEN paramsSchema
  ELSE LET param == Head(parameters)
           zodParam == openapiToZod(Prop(param, KeySchema), openApiSpec)
       IN  processParameters(Tail(parameters),
             SetParam(paramsSchema, StringAt(param, KeyName),
                      IF TruthyTree(Prop(param, KeyRequired)) THEN zodParam ELSE Optional(zodParam)),
             openApiSpec)

\* The content types processRequestBody tries, in priority order.
contentTypes == <<<<"a","p","p","l","i","c","a","t","i","o","n","/","j","s","o","n">>,
                  <<"m","u","l","t","i","p","a","r","t","/","f","o","r","m","-","d","a","t","a">>,
                  <<"a","p","p","l","i","c","a","t","i","o","n","/","x","-","w","w","w","-","f","o","r","m","-","u","r","l","e","n","c","o","d","e","d">>>>

\* The body schema after its $ref, if it has one, went through resolveReference.
Dereference(schema, openApiSpec) ==
  IF ReadThrows(schema) THEN [threw |-> TRUE, value |-> Undefined]
  ELSE IF TruthyTree(Prop(schema, KeyRef))
       THEN resolveReference(StringAt(schema, KeyRef), openApiSpec)
       ELSE [threw |-> FALSE, value |-> schema]

\* The body of processRequestBody's loop for the first content type present.
ProcessContent(media, paramsSchema, openApiSpec) ==
  LET body == Dereference(Prop(media, KeySchema), openApiSpec)
      properties == OptProp(body.value, KeyProperties)
      names == IF TruthyTree(properties) THEN OwnKeys(properties) ELSE {}
  IN  IF body.threw \/ \E prop \in names : Dereference(Prop(properties, prop), openApiSpec).threw
      THEN [threw |-> TRUE, schema |-> paramsSchema]
      ELSE [threw |-> FALSE,
            schema |-> [k \in DOMAIN paramsSchema \cup names |->
                          IF k \in names
                          THEN LET zodProp == openapiToZod(
                                     Dereference(Prop(properties, k), openApiSpec).value, openApiSpec)
                               IN  IF RequiredIncludes(body.value, k) THEN zodProp
                                   ELSE Optional(zodProp)
                          ELSE paramsSchema[k]]]

processRequestBody(requestBody, paramsSchema, openApiSpec) ==
  LET content == Prop(requestBody, KeyContent)
      present == SelectSeq(contentTypes, LAMBDA ct : TruthyTree(Prop(content, ct)))
  IN  IF ~TruthyTree(content) \/ present = <<>> THEN [threw |-> FALSE, schema |-> paramsSchema]
      ELSE ProcessContent(Prop(content, Head(present)), paramsSchema, openApiSpec)

buildParamsSchema(operation, openApiSpec) ==
  LET withPath == processParameters(ParameterItems(operation, <<"p","a","t","h">>),
                                    EmptySchema, openApiSpec)
      withQuery == processParameters(ParameterItems(operation, <<"q","u","e","r","y">>),
                                     withPath, openApiSpec)
  IN  IF FilterThrows(operation) THEN [threw |-> TRUE, schema |-> EmptySchema]
      ELSE IF TruthyTree(Prop(operation, KeyRequestBody))
      THEN processRequestBody(Prop(operation, KeyRequestBody), withQuery, openApiSpec)
      ELSE [threw |-> FALSE, schema |-> withQuery]

\* ------------------------------------------------------- registered tools

\* What registerTool closes its handler over: (method, path, operation).
Tool(method, path, operation) == [method |-> method, path |-> path, operation |-> operation]

NameD == <<"d">>

NameA == <<"a">>

NameQ == <<"q">>

NameH == <<"h", ":", "x">>

\* The tools a call may address: a POST and a GET with path and query
\* parameters, a lower-case get without path parameters, and an operation
\* that declares no parameters.
Tools ==
  { Tool(<<"P","O","S","T">>, <<"/","{","d","}","/","m">>,
         [parameters |-> <<Param(NameD, "path"), Param(NameQ, "query")>>]),
    Tool(<<"G","E","T">>, <<"/","{","d","}","/","b","/","{","a","}">>,
         [parameters |-> <<Param(NameD, "path"), Param(NameA, "path"), Param(NameQ, "query")>>]),
    Tool(<<"g","e","t">>, <<"/","l">>,
         [parameters |-> <<Param(NameQ, "query")>>]),
    Tool(<<"p","o","s","t">>, <<"/","k">>,
         [parameters |-> <<>>]) }

ArgKeys == {NameD, NameA, NameQ, NameH}

ArgValues == {StrV(<<>>), StrV(<<"a", " ", "/">>), NumV(0), NumV(10), NullV}

\* Argument mappings of exactly n entries with distinct keys.
RECURSIVE ArgsOfLen(_)
ArgsOfLen(n) ==
  IF n = 0 THEN {<<>>}
  ELSE { Append(m, Entry(k, v)) : m \in ArgsOfLen(n - 1), k \in ArgKeys, v \in ArgValues }

ArgMaps == { m \in UNION { ArgsOfLen(n) : n \in 0..MaxArgs } : Cardinality(Keys(m)) = Len(m) }

\* --------------------------------------------------------- outbound request

\* What the remote end may answer: a status code and a body that is a JSON
\* object, the JSON text null, or not JSON.
Statuses == {199, 200, 299, 300, 404}

Bodies == {"object", "null", "malformed"}

\* The end handler without its status test.
OnEndOutcomeAnyStatus(status, body) ==
  IF body = "malformed" THEN [settle |-> "rejected", message |-> <<"Failed to parse response: ">>]
  ELSE [settle |-> "resolved", message |-> <<body>>]

\* The res.on("end") handler of makeMailgunRequest: JSON.parse, then the
\* status test; parsedData.message of a parsed null throws inside the try.
OnEndOutcome(status, body) ==
  IF body = "malformed" THEN [settle |-> "rejected", message |-> <<"Failed to parse response: ">>]
  ELSE IF status >= 200 /\ status < 300 THEN [settle |-> "resolved", message |-> <<body>>]
  ELSE IF body = "null" THEN [settle |-> "rejected", message |-> <<"Failed to parse response: ">>]
  ELSE [settle |-> "rejected", message |-> <<"Mailgun API error: ">>]

\* The req.on("error") handler: reject(error).
OnErrorOutcome == [settle |-> "rejected", message |-> <<"network error">>]

\* Whether makeMailgunRequest writes a form body: data && method !== "GET".
WritesBody(method, data) == data.given /\ method # <<"G","E","T">>

\* The data argument the handler passes: null for GET, bodyParams otherwise.
RequestData(method, bodyParams) ==
  IF toUpperCase(method) = <<"G","E","T">> THEN [given |-> FALSE, params |-> <<>>]
  ELSE [given |-> TRUE, params |-> bodyParams]

\* The handler's two results: one text item each.
SuccessResult(method, finalPath, json) ==
  <<[type |-> "text",
     text |-> <<"(ok) ">> \o toUpperCase(method) \o <<" ">> \o finalPath
              \o <<" completed successfully:">> \o json]>>

ErrorResult(message) == <<[type |-> "text", text |-> <<"Error: ">> \o message]>>

IsErrorResult(content) == Len(content) = 1 /\ content[1].type = "text" /\ content[1].text[1] = "Error: "

IsSuccessResult(content) == Len(content) = 1 /\ content[1].type = "text" /\ content[1].text[1] = "(ok) "

\* ------------------------------------------------------------------- state

\* call: the one tool invocation followed; lookup: one reference resolution.
\* locate: one operation lookup; boot: the startup routine and the tool registry.
\* xlate: one schema translation; calls: the invocations in flight together.
VARIABLES call, lookup, locate, boot, xlate, calls

vars == <<call, lookup, locate, boot, xlate, calls>>

IdleCall ==
  [pc |-> "idle", tool |-> CHOOSE t \in Tools : TRUE, params |-> <<>>,
   actualPath |-> <<>>, remainingParams |-> <<>>, queryParams |-> <<>>, bodyParams |-> <<>>,
   finalPath |-> <<>>, requests |-> 0, wroteBody |-> FALSE,
   settled |-> "pending", ended |-> FALSE, errored |-> FALSE,
   first |-> "none", status |-> 0, body |-> "none",
   content |-> <<>>, raised |-> FALSE]

\* A catch block that sends the request again.
HandlerCatchRetry(c, message) ==
  [c EXCEPT !.pc = "awaiting", !.requests = c.requests + 1, !.settled = "pending"]

\* The catch block of the handler: the failure becomes an error text result.
HandlerCatch(c, message) == [c EXCEPT !.pc = "done", !.content = ErrorResult(message)]

\* The handler after the await resolved.
HandlerReturn(c, json) ==
  [c EXCEPT !.pc = "done", !.content = SuccessResult(c.tool.method, c.finalPath, json)]

\* A handler whose path substitution deletes from the caller's own mapping
\* instead of a copy of it.
HandlerStartInPlace(c, tool, params) ==
  LET p == processPathParameters(tool.path, tool.operation, params)
      c0 == [c EXCEPT !.tool = tool, !.params = p.remainingParams]
      sp == separateParameters(p.remainingParams, tool.operation, tool.method)
      finalPath == appendQueryString(p.actualPath, sp.queryParams)
      data == RequestData(tool.method, sp.bodyParams)
  IN  IF p.threw THEN HandlerCatch(c0, p.message)
      ELSE [c0 EXCEPT !.pc = "awaiting",
                      !.actualPath = p.actualPath, !.remainingParams = p.remainingParams,
                      !.queryParams = sp.queryParams, !.bodyParams = sp.bodyParams,
                      !.finalPath = finalPath,
                      !.requests = c.requests + 1,
                      !.wroteBody = WritesBody(toUpperCase(tool.method), data)]

\* The handler from its call to the await: the pipeline, then one request.
HandlerStart(c, tool, params) ==
  LET c0 == [c EXCEPT !.tool = tool, !.params = params]
      p == processPathParameters(tool.path, tool.operation, params)
      sp == separateParameters(p.remainingParams, tool.operation, tool.method)
      finalPath == appendQueryString(p.actualPath, sp.queryParams)
      data == RequestData(tool.method, sp.bodyParams)
  IN  IF p.threw THEN HandlerCatch(c0, p.message)
      ELSE [c0 EXCEPT !.pc = "awaiting",
                      !.actualPath = p.actualPath, !.remainingParams = p.remainingParams,
                      !.queryParams = sp.queryParams, !.bodyParams = sp.bodyParams,
                      !.finalPath = finalPath,
                      !.requests = c.requests + 1,
                      !.wroteBody = WritesBody(toUpperCase(tool.method), data)]

\* A promise settles once: resolve and reject after that change nothing.
Settle(c, outcome) ==
  IF c.settled # "pending" THEN c
  ELSE IF outcome.settle = "resolved"
       THEN HandlerReturn([c EXCEPT !.settled = "resolved"], outcome.message)
       ELSE HandlerCatch([c EXCEPT !.settled = "rejected"], outcome.message)

\* No resolution asked for.
IdleLookup == [pc |-> "idle", segments |-> <<>>, threw |-> FALSE, value |-> Undefined]

\* No operation looked up.
IdleLocate ==
  [pc |-> "idle", doc |-> "test", method |-> <<>>, path |-> <<>>,
   threw |-> FALSE, found |-> FALSE, operation |-> Undefined, operationId |-> <<>>]

\* Before main() ran: no document loaded, no tool registered, NODE_ENV not
\* read yet, nothing logged, the process alive.
IdleBoot ==
  [pc |-> "init", cfg |-> [absent |-> {}, otherVerb |-> {}, body |-> "none"],
   doc |-> Undefined,
   pos |-> 1, registry |-> <<>>, computed |-> <<>>, warned |-> {}, failed |-> {},
   mode |-> "unread", file |-> "unread", logged |-> {}, exitCode |-> 0,
   loaderThrew |-> FALSE, raised |-> FALSE,
   mains |-> 0, loads |-> 0, duplicates |-> 0, connects |-> 0, entry |-> "none"]

\* No schema translated.
IdleXlate == [pc |-> "idle", schema |-> Undefined, fullSpec |-> Undefined, result |-> Zod("ZodAny")]

\* The callers that may have an invocation in flight at the same time.
Callers == {"first", "second"}

\* No caller has invoked a tool.
IdleCalls == [i \in Callers |-> [c |-> IdleCall, given |-> <<>>]]

Init ==
  /\ call = IdleCall /\ lookup = IdleLookup /\ locate = IdleLocate /\ boot = IdleBoot
  /\ xlate = IdleXlate /\ calls = IdleCalls

\* A client calls a registered tool with validated arguments.
Invoke ==
  /\ call.pc = "idle"
  /\ \E tool \in Tools, params \in ArgMaps : call' = HandlerStart(call, tool, params)
  /\ UNCHANGED <<lookup, locate, boot, xlate, calls>>

\* The response of the outbound request ends.
ResponseEnd ==
  /\ call.requests > 0 /\ ~call.ended
  /\ \E status \in Statuses, body \in Bodies :
       call' = Settle([call EXCEPT !.ended = TRUE,
                                   !.first = IF call.first = "none" THEN "end" ELSE @,
                                   !.status = status, !.body = body],
                      OnEndOutcome(status, body))
  /\ UNCHANGED <<lookup, locate, boot, xlate, calls>>

\* The outbound request fails (DNS, connection reset, ...).
RequestError ==
  /\ call.requests > 0 /\ ~call.errored
  /\ call' = Settle([call EXCEPT !.errored = TRUE,
                                  !.first = IF call.first = "none" THEN "error" ELSE @],
                     OnErrorOutcome)
  /\ UNCHANGED <<lookup, locate, boot, xlate, calls>>

Next == Invoke \/ ResponseEnd \/ RequestError

Spec == Init /\ [][Next]_vars

\* ------------------------------------------------------ reference lookups

\* Keys of the document that pointers are resolved in.
KeyC == <<"c">>

KeyS == <<"s">>

KeyT == <<"T">>

KeyPt == <<"P", "t">>

KeyN == <<"N">>

KeyV == <<"v">>

KeyZ == <<"z">>

KeyType == <<"t", "y", "p", "e">>

\* { c: { s: { T: {type: "string"}, Pt: { N: {type: "number"} } } }, v: "1", z: null }
RefDocument ==
  JObject(<<
    <<KeyC, JObject(<< <<KeyS, JObject(<<
        <<KeyT, JObject(<< <<KeyType, JString(<<"s","t","r","i","n","g">>)>> >>)>>,
        <<KeyPt, JObject(<< <<KeyN, JObject(<< <<KeyType, JString(<<"n","u","m","b","e","r">>)>> >>)>> >>)>>
      >>)>> >>)>>,
    <<KeyV, JString(<<"1">>)>>,
    <<KeyZ, JNull>> >>)

RefSegments == {KeyC, KeyS, KeyT, KeyPt, KeyN, KeyV, KeyZ}

\* Segment sequences of exactly n segments.
RECURSIVE SegmentsOfLen(_)
SegmentsOfLen(n) ==
  IF n = 0 THEN {<<>>}
  ELSE { Append(p, g) : p \in SegmentsOfLen(n - 1), g \in RefSegments }

RECURSIVE JoinSlash(_)
JoinSlash(segments) ==
  IF Len(segments) = 1 THEN Head(segments)
  ELSE Head(segments) \o <<"/">> \o JoinSlash(Tail(segments))

\* The pointer "#/s1/s2/.../sn".
PointerOf(segments) == <<"#", "/">> \o JoinSlash(segments)

\* Some pointer of 1..MaxRefDepth segments is handed to resolveReference.
Resolve ==
  /\ lookup.pc = "idle"
  /\ \E n \in 1..MaxRefDepth : \E segments \in SegmentsOfLen(n) :
       LET r == resolveReference(PointerOf(segments), RefDocument)
       IN  lookup' = [pc |-> "returned", segments |-> segments,
                      threw |-> r.threw, value |-> r.value]
  /\ UNCHANGED <<call, locate, boot, xlate, calls>>

SpecResolve == Init /\ [][Resolve]_vars

\* C10 (as claimed): the pointer's fragment is returned when every segment is
\* a key of the fragment reached so far, and a dangling pointer, at whatever
\* depth it dangles, returns undefined without raising.
C10_ResolvesOrUndefined ==
  lookup.pc = "returned" =>
    /\ ~lookup.threw
    /\ lookup.value = SubTree(RefDocument, lookup.segments)

\* The part of C10 that holds: pointers whose every proper prefix reaches an
\* object (so at most the last segment dangles) return the fragment or undefined.
C10_LastSegmentOnly ==
  (lookup.pc = "returned" /\ \A i \in 1..(Len(lookup.segments) - 1) :
       Kind(SubTree(RefDocument, SubSeq(lookup.segments, 1, i))) \notin {"undefined", "null"}) =>
    /\ ~lookup.threw
    /\ lookup.value = SubTree(RefDocument, lookup.segments)

\* ------------------------------------------------------ operation lookups

VerbGet == <<"g","e","t">>

VerbPost == <<"p","o","s","t">>

TestOperation == JObject(<< <<KeySummary, JString(<<"T">>)>> >>)

OtherOperation == JObject(<< <<KeySummary, JString(<<"U">>)>> >>)

TemplateTest == <<"/","t","e","s","t","/","p","a","t","h">>

TemplateUnderscore == <<"/","t","_","p","/","{","a","}">>

TemplateHyphen == <<"/","a","-","/","b">>

TemplateMessages == <<"/","v","3","/","{","d","_","n","}","/","m">>

TemplateOther == <<"/","x">>

LocTemplates == {TemplateTest, TemplateUnderscore, TemplateHyphen, TemplateMessages, TemplateOther}

LocVerbs == {VerbGet, <<"G","E","T">>, <<"G","e","t">>, VerbPost, <<"P","O","S","T">>, <<"p","u","t">>}

\* The documents a lookup runs against, by name: the test's document, one with
\* several templates and verbs, and one without a paths mapping.
LocDocNames == {"test", "several", "nopaths"}

LocDocument(name) ==
  CASE name = "test" ->
         JObject(<< <<KeyPaths, JObject(<<
           <<TemplateTest, JObject(<< <<VerbGet, TestOperation>> >>)>> >>)>> >>)
    [] name = "several" ->
         JObject(<< <<KeyPaths, JObject(<<
           <<TemplateUnderscore, JObject(<< <<VerbPost, TestOperation>>, <<VerbGet, OtherOperation>> >>)>>,
           <<TemplateHyphen, JObject(<< <<VerbGet, TestOperation>> >>)>>,
           <<TemplateMessages, JObject(<< <<VerbPost, OtherOperation>> >>)>> >>)>> >>)
    [] name = "nopaths" -> JObject(<< <<KeySummary, JString(<<"T">>)>> >>)

\* getOperationDetails is called with some document, verb and template.
Locate ==
  /\ locate.pc = "idle"
  /\ \E name \in LocDocNames, method \in LocVerbs, path \in LocTemplates :
       LET r == getOperationDetails(LocDocument(name), method, path)
       IN  locate' = [pc |-> "returned", doc |-> name, method |-> method, path |-> path,
                      threw |-> r.threw, found |-> r.found,
                      operation |-> r.operation, operationId |-> r.operationId]
  /\ UNCHANGED <<call, lookup, boot, xlate, calls>>

\* The identifier of a returned lookup goes through sanitizeToolId.
Sanitize ==
  /\ locate.pc = "returned" /\ locate.found
  /\ locate' = [locate EXCEPT !.pc = "sanitized", !.operationId = sanitizeToolId(@)]
  /\ UNCHANGED <<call, lookup, boot, xlate, calls>>

SpecLocate == Init /\ [][Locate \/ Sanitize]_vars

\* Whether the document defines the template with the verb in lower case.
Defines(name, method, path) ==
  <<KeyPaths, path, [i \in DOMAIN method |-> LowerChar(method[i])]>> \in DOMAIN LocDocument(name)

Alnum == Range(Lowers) \cup Range(Uppers) \cup Range(Digits)

RECURSIVE RunsToHyphen(_, _)
\* s with every maximal run of characters outside kept replaced by one "-".
RunsToHyphen(s, kept) ==
  IF s = <<>> THEN <<>>
  ELSE IF Head(s) \notin kept
       THEN IF Len(s) > 1 /\ s[2] \notin kept THEN RunsToHyphen(Tail(s), kept)
            ELSE <<"-">> \o RunsToHyphen(Tail(s), kept)
       ELSE <<Head(s)>> \o RunsToHyphen(Tail(s), kept)

C9_Witness ==
  /\ locate.pc = "returned" /\ locate.doc = "test" /\ locate.found
  /\ locate.method = VerbGet /\ locate.path = TemplateTest
  /\ locate.operationId = <<"g","e","t","-","-","t","e","s","t","-","p","a","t","h">>

KeyComponents == <<"c","o","m","p","o","n","e","n","t","s">>

KeySchemas == <<"s","c","h","e","m","a","s">>

KeyBody == <<"B","o","d","y">>

KeyTag == <<"T","a","g">>

KeyTo == <<"t","o">>

KeyLimit == <<"l","i","m","i","t">>

TypeString == JObject(<< <<KeyTypeName, JString(<<"s","t","r","i","n","g">>)>> >>)

RefTo(pointer) == JObject(<< <<KeyRef, JString(pointer)>> >>)

RECURSIVE PlaceholderSeq(_)
\* The placeholder names of a template, in order.
PlaceholderSeq(t) ==
  IF \A i \in DOMAIN t : t[i] # "{" THEN <<>>
  ELSE LET i == CHOOSE i \in DOMAIN t : t[i] = "{" /\ \A j \in 1..(i - 1) : t[j] # "{"
           rest == SubSeq(t, i + 1, Len(t))
       IN  <<SubSeq(rest, 1, CloseAt(rest) - 1)>> \o PlaceholderSeq(SubSeq(rest, CloseAt(rest) + 1, Len(rest)))

PathParameter(name) ==
  JObject(<< <<KeyName, JString(name)>>, <<KeyIn, JString(<<"p","a","t","h">>)>>,
             <<KeyRequired, JBool(TRUE)>>, <<KeySchema, TypeString>> >>)

LimitParameter ==
  JObject(<< <<KeyName, JString(KeyLimit)>>, <<KeyIn, JString(<<"q","u","e","r","y">>)>>,
             <<KeySchema, JObject(<< <<KeyTypeName, JString(<<"i","n","t","e","g","e","r">>)>>,
                                     <<KeyMinimum, JNumber(1)>> >>)>> >>)

\* { properties: { to: <to> }, required: ["to"] }
BodyWith(to) ==
  JObject(<< <<KeyProperties, JObject(<< <<KeyTo, to>> >>)>>,
             <<KeyRequired, JArray(<<JString(KeyTo)>>)>> >>)

Media(contentType, schema) ==
  JObject(<< <<KeyContent, JObject(<< <<contentType, JObject(<< <<KeySchema, schema>> >>)>> >>)>> >>)

\* The request bodies a document may give its POST operations: an inline
\* schema, a reference that resolves, one that dangles at its last segment,
\* one that dangles earlier, and a property whose reference dangles.
BodyKinds == {"none", "inline", "ref", "danglingLast", "danglingEarly", "propertyDangling"}

RequestBodyOf(kind) ==
  CASE kind = "inline" -> Media(contentTypes[1], BodyWith(TypeString))
    [] kind = "ref" -> Media(contentTypes[2], RefTo(<<"#","/","c","o","m","p","o","n","e","n","t","s","/","s","c","h","e","m","a","s","/","B","o","d","y">>))
    [] kind = "danglingLast" -> Media(contentTypes[1], RefTo(<<"#","/","c","o","m","p","o","n","e","n","t","s","/","s","c","h","e","m","a","s","/","N","o","p","e">>))
    [] kind = "danglingEarly" -> Media(contentTypes[1], RefTo(<<"#","/","d","e","f","i","n","i","t","i","o","n","s","/","B","o","d","y">>))
    [] kind = "propertyDangling" ->
         Media(contentTypes[3], BodyWith(RefTo(<<"#","/","c","o","m","p","o","n","e","n","t","s","/","s","c","h","e","m","a","s","/","N","o","p","e">>)))

EndpointMethod(i) == Split(endpoints[i], " ")[1]

EndpointPath(i) == Split(endpoints[i], " ")[2]

\* The operation a document defines for allow-list entry i: a path parameter
\* for every placeholder, a query parameter for GET, a summary and the
\* document's kind of request body for POST.
OperationFor(i, cfg) ==
  LET pathParameters == [j \in DOMAIN PlaceholderSeq(EndpointPath(i)) |->
                           PathParameter(PlaceholderSeq(EndpointPath(i))[j])]
  IN  IF EndpointMethod(i) = <<"G","E","T">>
      THEN JObject(<< <<KeyParameters, JArray(pathParameters \o <<LimitParameter>>)>> >>)
      ELSE JObject(<< <<KeyParameters, JArray(pathParameters)>>,
                      <<KeySummary, JString(<<"S">>)>> >>
                   \o (IF cfg.body = "none" THEN <<>>
                       ELSE << <<KeyRequestBody, RequestBodyOf(cfg.body)>> >>))

\* The API description a configuration stands for: the allow-list entries
\* outside cfg.absent are defined, those in cfg.otherVerb under another verb.
Document(cfg) ==
  LET defined == SelectSeq([i \in DOMAIN endpoints |-> i], LAMBDA i : i \notin cfg.absent)
  IN  JObject(<<
        <<KeyPaths, JObject([j \in DOMAIN defined |->
            <<EndpointPath(defined[j]),
              JObject(<< <<IF defined[j] \in cfg.otherVerb THEN <<"p","u","t">>
                           ELSE toLowerCase(EndpointMethod(defined[j])),
                           OperationFor(defined[j], cfg)>> >>)>>])>>,
        <<KeyComponents, JObject(<< <<KeySchemas, JObject(<<
            <<KeyBody, BodyWith(RefTo(<<"#","/","c","o","m","p","o","n","e","n","t","s","/","s","c","h","e","m","a","s","/","T","a","g">>))>>,
            <<KeyTag, JObject(<< <<KeyTypeName, JString(<<"s","t","r","i","n","g">>)>>,
                                 <<KeyEnum, JArray(<<JString(<<"a">>), JString(<<"b">>)>>)>> >>)>>
          >>)>> >>)>> >>)

\* The documents the file may hold.
DocConfigs ==
  [absent : {{}, {1}, {2, Len(endpoints)}, DOMAIN endpoints},
   otherVerb : {{}, {3}},
   body : BodyKinds]

\* main() starts and loadOpenApiSpec returns a document: the file's, which
\* does not change while the process runs.
LoadSpec ==
  /\ boot.pc = "init"
  /\ \E cfg \in DocConfigs :
       /\ boot.loads > 0 => cfg = boot.cfg
       /\ boot' = [boot EXCEPT !.pc = "generating", !.cfg = cfg, !.doc = Document(cfg),
                               !.file = "loaded", !.pos = 1,
                               !.mains = @ + 1, !.loads = @ + 1]
  /\ UNCHANGED <<call, lookup, locate, xlate, calls>>

\* What NODE_ENV may say, and how reading the file may fail.
Modes == {"production", "test"}

FileFailures == {"missing", "malformed"}

\* main's catch: log, then exit outside test mode; in test mode main returns
\* normally, so the promise it gave its caller is fulfilled.
MainCatch(b) ==
  LET logged == [b EXCEPT !.logged = @ \cup {"Fatal error in main()"}]
  IN  IF b.mode # "test" THEN [logged EXCEPT !.pc = "exited", !.exitCode = 1]
      ELSE [logged EXCEPT !.pc = "returned", !.raised = FALSE]

\* loadOpenApiSpec's catch: log, exit outside test mode, throw otherwise.
loadOpenApiSpecCatch(b) ==
  LET logged == [b EXCEPT !.logged = @ \cup {"Error loading OpenAPI spec"}]
  IN  IF b.mode # "test" THEN [logged EXCEPT !.pc = "exited", !.exitCode = 1]
      ELSE MainCatch([logged EXCEPT !.loaderThrew = TRUE])

\* main() starts and reading or parsing the file fails.
LoadFails ==
  /\ boot.pc = "init" /\ boot.loads = 0
  /\ \E mode \in Modes, failure \in FileFailures :
       /\ boot.mode \in {"unread", mode}
       /\ boot' = loadOpenApiSpecCatch([boot EXCEPT !.mode = mode, !.file = failure,
                                                    !.mains = @ + 1])
  /\ UNCHANGED <<call, lookup, locate, xlate, calls>>

\* server.tool(toolId, ...): the SDK refuses a name it already holds.
ToolThrows(registry, toolId) == \E i \in DOMAIN registry : registry[i].name = toolId

\* registerTool: the registry with the new tool.
registerTool(registry, toolId, toolDescription, paramsSchema, method, path, entry) ==
  Append(registry, [name |-> toolId, description |-> toolDescription,
                    paramsSchema |-> paramsSchema, method |-> method, path |-> path,
                    entry |-> entry])

\* One iteration of generateToolsFromOpenApi's loop, for the entry at b.pos:
\* its try block, the continue of an entry that is not matched, and its catch.
LoopBody(b) ==
  LET doc == b.doc
      method == EndpointMethod(b.pos)
      path == EndpointPath(b.pos)
      details == getOperationDetails(doc, method, path)
      built == buildParamsSchema(details.operation, doc)
      toolId == sanitizeToolId(details.operationId)
      toolDescription == IF TruthyTree(Prop(details.operation, KeySummary))
                         THEN StringOf(Prop(details.operation, KeySummary))
                         ELSE toUpperCase(method) \o <<" ">> \o path
      next == [b EXCEPT !.pos = b.pos + 1]
  IN  IF details.threw THEN [next EXCEPT !.failed = @ \cup {b.pos}]
      ELSE IF ~details.found THEN [next EXCEPT !.warned = @ \cup {b.pos}]
      ELSE IF built.threw THEN [next EXCEPT !.failed = @ \cup {b.pos}]
      ELSE IF ToolThrows(b.registry, toolId)
           THEN [next EXCEPT !.failed = @ \cup {b.pos},
                             !.duplicates = @ + 1,
                             !.computed = Append(@, [entry |-> b.pos, toolId |-> toolId])]
      ELSE [next EXCEPT !.computed = Append(@, [entry |-> b.pos, toolId |-> toolId]),
                        !.registry = registerTool(@, toolId, toolDescription, built.schema,
                                                  method, path, b.pos)]

\* generateToolsFromOpenApi handles the next allow-list entry.
ProcessEndpoint ==
  /\ boot.pc = "generating" /\ boot.pos <= Len(endpoints)
  /\ boot' = LoopBody(boot)
  /\ UNCHANGED <<call, lookup, locate, xlate, calls>>

\* The loop is over: main() connects the transport.
Connect ==
  /\ boot.pc = "generating" /\ boot.pos > Len(endpoints)
  /\ boot' = [boot EXCEPT !.pc = "connected", !.connects = @ + 1]
  /\ UNCHANGED <<call, lookup, locate, xlate, calls>>

SpecStartup == Init /\ [][LoadSpec \/ LoadFails \/ ProcessEndpoint \/ Connect]_vars

\* The allow-list entries the loaded document defines with their verb.
Matched == { i \in DOMAIN endpoints : i \notin boot.cfg.absent /\ i \notin boot.cfg.otherVerb }

ToolsOf(i) == { j \in DOMAIN boot.registry : boot.registry[j].entry = i }

\* C7 (as claimed): once the loop is over every allow-list entry was handled,
\* the entries the document does not define were skipped, and the registered
\* tools are one-to-one with the entries it defines: one tool for each.
C7_ToolsOneToOneWithMatched ==
  boot.pc = "connected" =>
    /\ boot.pos = Len(endpoints) + 1
    /\ boot.warned = DOMAIN endpoints \ Matched
    /\ \A i \in Matched : Cardinality(ToolsOf(i)) = 1
    /\ \A j \in DOMAIN boot.registry : boot.registry[j].entry \in Matched

\* The part of C7 that holds: an entry that is not matched never stops the
\* loop, and no entry has two tools or a tool without being matched.
C7_SkipsAndAtMostOne ==
  boot.pc = "connected" =>
    /\ boot.pos = Len(endpoints) + 1
    /\ boot.warned = DOMAIN endpoints \ Matched
    /\ \A i \in DOMAIN endpoints : Cardinality(ToolsOf(i)) <= (IF i \in Matched THEN 1 ELSE 0)

\* C8: the identifiers computed for the matched allow-list entries are
\* pairwise different, and so are the names of the registered tools.
C8_ToolIdsUnique ==
  /\ \A a, b \in DOMAIN boot.computed :
       a # b => boot.computed[a].toolId # boot.computed[b].toolId
  /\ \A a, b \in DOMAIN boot.registry :
       a # b => boot.registry[a].name # boot.registry[b].name
  /\ boot.failed = {} => Len(boot.computed) = Cardinality(Matched \cap 1..(boot.pos - 1))

\* Every entry of the allow-list was matched and registered.
C8_Witness ==
  /\ boot.pc = "connected"
  /\ Len(boot.registry) = Len(endpoints)
  /\ Len(boot.computed) = Len(endpoints)

\* ------------------------------------------------- claims on an invocation

\* The path parameters the called tool's operation declares.
DeclaredPath == { p.name : p \in Range(ParamsIn(call.tool.operation, "path")) }

DeclaredQuery == { p.name : p \in Range(ParamsIn(call.tool.operation, "query")) }

Called == call.pc # "idle"

Dispatched == call.requests > 0

\* The names between braces in a URL template.
Placeholders(t) ==
  { SubSeq(t, i + 1, j - 1) : <<i, j>> \in
      { <<i, j>> \in (DOMAIN t) \X (DOMAIN t) :
          /\ i < j /\ t[i] = "{" /\ t[j] = "}"
          /\ \A k \in (i + 1)..(j - 1) : t[k] \notin {"{", "}"} } }

RECURSIVE SubstituteAll(_, _)
\* The template with every placeholder replaced by its percent-encoded argument.
SubstituteAll(t, params) ==
  IF t = <<>> THEN <<>>
  ELSE IF Head(t) = "{"
       THEN encodeURIComponentStr(ToStr(Get(params, SubSeq(t, 2, CloseAt(t) - 1))))
            \o SubstituteAll(SubSeq(t, CloseAt(t) + 1, Len(t)), params)
       ELSE <<Head(t)>> \o SubstituteAll(Tail(t), params)

\* C1 (as claimed): a call whose arguments lack a declared path parameter ends
\* with the error text "Required path parameter 'p' is missing" for a path
\* parameter p that the arguments lack; nothing is raised and no request goes out.
C1_MissingPathParameterNamed ==
  (Called /\ \E p \in DeclaredPath : ~HasKey(call.params, p)) =>
     /\ call.pc = "done" /\ ~call.raised /\ call.requests = 0
     /\ \E p \in DeclaredPath :
          /\ ~HasKey(call.params, p)
          /\ call.content = ErrorResult(<<"Required path parameter '">> \o p \o <<"' is missing">>)

\* C2 (as claimed): when the arguments hold a key for every placeholder of the
\* template, whatever the values, the call gets past path substitution with
\* every placeholder replaced by the percent-encoded value and with exactly the
\* substituted keys removed from the remaining arguments.
C2_AllPlaceholdersSubstituted ==
  (Called /\ \A n \in Placeholders(call.tool.path) : HasKey(call.params, n)) =>
     /\ Dispatched
     /\ call.actualPath = SubstituteAll(call.tool.path, call.params)
     /\ call.remainingParams =
          SelectSeq(call.params, LAMBDA e : e.k \notin Placeholders(call.tool.path))

\* A verb that spells GET in any letter case.
IsGetVerb(m) == toLowerCase(m) = <<"g","e","t">>

\* The entries of a mapping as a set: key order aside.
Entries(m) == { m[i] : i \in DOMAIN m }

\* C3: for a non-GET verb the remaining arguments named by a declared query
\* parameter are the query set and all the others are the body set; for GET in
\* any letter case every remaining argument is in the query set, the body set
\* is empty and the outbound request carries no body.
C3_QueryBodyPartition ==
  Dispatched =>
    IF IsGetVerb(call.tool.method)
    THEN /\ Entries(call.queryParams) = Entries(call.remainingParams)
         /\ Len(call.queryParams) = Len(call.remainingParams)
         /\ call.bodyParams = <<>>
         /\ ~call.wroteBody
    ELSE /\ Entries(call.queryParams) = { e \in Entries(call.remainingParams) : e.k \in DeclaredQuery }
         /\ Entries(call.bodyParams) = { e \in Entries(call.remainingParams) : e.k \notin DeclaredQuery }
         /\ Len(call.queryParams) + Len(call.bodyParams) = Len(call.remainingParams)

\* A GET spelled in lower case whose undeclared argument went to the query set.
C3_Witness ==
  /\ Dispatched /\ call.tool.method = <<"g","e","t">>
  /\ NameH \in Keys(call.queryParams) /\ NameQ \in Keys(call.queryParams)

\* The i-th and later present entries of m as key=value pairs joined by &.
RECURSIVE PairsFrom(_, _)
PairsFrom(m, i) ==
  IF i > Len(m) THEN <<>>
  ELSE IF m[i].v.t \in {"null", "undefined"} THEN PairsFrom(m, i + 1)
  ELSE LET rest == PairsFrom(m, i + 1)
       IN  FormEncode(m[i].k) \o <<"=">> \o FormEncode(ToStr(m[i].v))
           \o (IF rest = <<>> THEN <<>> ELSE <<"&">> \o rest)

\* C4: the final path is the substituted path itself when the query set is
\* empty, and otherwise the substituted path, a "?", and the key=value pairs of
\* the entries that have a value, in key order, joined by "&", each value
\* stringified and form-URL-encoded.
C4_QueryStringAppended ==
  Dispatched =>
    IF call.queryParams = <<>>
    THEN call.finalPath = call.actualPath
    ELSE call.finalPath = call.actualPath \o <<"?">> \o PairsFrom(call.queryParams, 1)

\* Two query arguments, one with a value that needs encoding.
C4_Witness ==
  /\ Dispatched /\ Len(call.queryParams) = 2
  /\ call.queryParams[1].v = NumV(10)
  /\ call.queryParams[2].v = StrV(<<"a", " ", "/">>)

\* The call never reaches a request without a truthy argument for every
\* declared path parameter.
PathArgumentsUsable == \A p \in DeclaredPath : Truthy(Get(call.params, p))

\* C5 (as claimed): every invocation issues exactly one outbound request.
C5_ExactlyOneRequest == Called => call.requests = 1

\* C5 (amended): no invocation issues a second request, whatever the outcome
\* of the first; the invocations that get past path substitution issue exactly
\* one, those rejected for a path parameter issue none.
C5_AtMostOneRequest ==
  /\ call.requests <= 1
  /\ Called => (call.requests = 1 <=> PathArgumentsUsable)

\* A request was answered with a failure and a network error followed.
C5_Witness ==
  /\ call.requests = 1 /\ call.ended /\ call.errored
  /\ call.status = 404 /\ IsErrorResult(call.content)

\* C6: nothing is raised past the handler; a finished invocation has exactly
\* one text item, which is the success text exactly when the response ended
\* with a status in 200..299 and a body that parsed as JSON before any network
\* error; every other finished invocation has the error text.
C6_AlwaysOneTextResult ==
  /\ ~call.raised
  /\ call.pc = "awaiting" => call.content = <<>>
  /\ call.pc = "done" =>
       /\ Len(call.content) = 1 /\ call.content[1].type = "text"
       /\ IsSuccessResult(call.content) <=>
            (call.first = "end" /\ call.status \in 200..299 /\ call.body # "malformed")
       /\ IsErrorResult(call.content) <=> ~IsSuccessResult(call.content)
  /\ (Called /\ call.first # "none") => call.pc = "done"

\* A non-2xx answer with a JSON body ended as an error text.
C6_Witness ==
  /\ call.pc = "done" /\ call.first = "end" /\ call.status = 300 /\ call.body = "object"
  /\ IsErrorResult(call.content)

\* C11 (as claimed): a reference that cannot be resolved never aborts the
\* startup: once the loop is over every allow-list entry was handled, every
\* entry the document defines has its tool whatever references its request
\* body uses, a body property whose reference dangles has the accept-anything
\* validator, and one whose reference resolves has the translation of the
\* fragment referred to.
C11_BadReferenceNeverAborts ==
  boot.pc = "connected" =>
    /\ boot.pos = Len(endpoints) + 1
    /\ \A i \in Matched : ToolsOf(i) # {}
    /\ \A j \in DOMAIN boot.registry :
         LET tool == boot.registry[j]
         IN  /\ (boot.cfg.body = "propertyDangling" /\ tool.method = <<"P","O","S","T">>) =>
                  /\ KeyTo \in DOMAIN tool.paramsSchema
                  /\ tool.paramsSchema[KeyTo].typeName = "ZodAny"
             /\ (boot.cfg.body = "ref" /\ tool.method = <<"P","O","S","T">>) =>
                  /\ KeyTo \in DOMAIN tool.paramsSchema
                  /\ tool.paramsSchema[KeyTo] =
                       openapiToZod(SubTree(boot.doc, <<KeyComponents, KeySchemas, KeyTag>>), boot.doc)

\* ------------------------------------------------------ schema translations

KeyTestType == <<"T","e","s","t","T","y","p","e">>

KeyAlias == <<"A","l","i","a","s">>

\* The pointer "#/components/schemas/<name>".
SchemaPointer(name) == PointerOf(<<KeyComponents, KeySchemas, name>>)

\* { type: 'string', description: 'Referenced type' }
ReferencedType ==
  JObject(<< <<KeyTypeName, JString(<<"s","t","r","i","n","g">>)>>,
             <<KeyDescription, JString(<<"Referenced type">>)>> >>)

\* The documents a fragment is translated against: {} and one with the
\* reusable fragments TestType, Tag (an enum) and Alias (a reference).
TranslateDocuments ==
  { JObject(<<>>),
    JObject(<< <<KeyComponents, JObject(<< <<KeySchemas, JObject(<<
        <<KeyTestType, ReferencedType>>,
        <<KeyTag, JObject(<< <<KeyTypeName, JString(<<"s","t","r","i","n","g">>)>>,
                             <<KeyEnum, JArray(<<JString(<<"a">>), JString(<<"b">>)>>)>> >>)>>,
        <<KeyAlias, RefTo(SchemaPointer(KeyTestType))>>
      >>)>> >>)>> >>) }

\* The type, enum, format and description a fragment may carry; <<>> and
\* "none" stand for a key the fragment does not have.
SchemaTypes == {<<>>, <<"s","t","r","i","n","g">>, <<"i","n","t","e","g","e","r">>, <<"b","o","o","l","e","a","n">>}

SchemaEnums == {"none", "empty", "three"}

SchemaFormats == {<<>>, <<"e","m","a","i","l">>, <<"u","r","i">>, <<"d","a","t","e">>}

SchemaDescriptions == {<<>>, <<"A test string">>}

EnumOf(kind) ==
  IF kind = "empty" THEN JArray(<<>>)
  ELSE JArray(<<JString(<<"y","e","s">>), JString(<<"n","o">>), JString(<<"m","a","y","b","e">>)>>)

\* The fragment with the keys given.
PlainSchema(type, enum, format, description) ==
  JObject((IF type = <<>> THEN <<>> ELSE << <<KeyTypeName, JString(type)>> >>)
          \o (IF enum = "none" THEN <<>> ELSE << <<KeyEnum, EnumOf(enum)>> >>)
          \o (IF format = <<>> THEN <<>> ELSE << <<KeyFormat, JString(format)>> >>)
          \o (IF description = <<>> THEN <<>> ELSE << <<KeyDescription, JString(description)>> >>))

\* Pointers that resolve in the second document, pointers that dangle at
\* their last or at an earlier segment, the EventSeverityType pointers and a
\* reference that is no "#/" pointer.
RefPointers ==
  { SchemaPointer(KeyTestType), SchemaPointer(KeyTag), SchemaPointer(KeyAlias),
    SchemaPointer(<<"N","o","p","e">>),
    PointerOf(<<<<"d","e","f","i","n","i","t","i","o","n","s">>, KeyTestType>>),
    SchemaPointer(EventSeverityType),
    PointerOf(<<EventSeverityType, <<"x">>>>),
    <<"o",".","y","a","m","l","#","/","X">> }

\* The fragments handed to the translator.
Schemas ==
  {Undefined}
  \cup { PlainSchema(type, enum, format, description) :
           type \in SchemaTypes, enum \in SchemaEnums,
           format \in SchemaFormats, description \in SchemaDescriptions }
  \cup { RefTo(pointer) : pointer \in RefPointers }

\* openapiToZod is called on a fragment and a document.
Translate ==
  /\ xlate.pc = "idle"
  /\ \E schema \in Schemas, fullSpec \in TranslateDocuments :
       xlate' = [pc |-> "returned", schema |-> schema, fullSpec |-> fullSpec,
                 result |-> openapiToZod(schema, fullSpec)]
  /\ UNCHANGED <<call, lookup, locate, boot, calls>>

SpecTranslate == Init /\ [][Translate]_vars

\* The translated fragment is a reference.
IsReference == xlate.pc = "returned" /\ TruthyTree(Prop(xlate.schema, KeyRef))

\* The segments of the translated reference's pointer.
PointerSegments == Split(SubSeq(StringOf(Prop(xlate.schema, KeyRef)), 3,
                                Len(StringOf(Prop(xlate.schema, KeyRef)))), "/")

\* The pointer leads to a fragment of the document.
PointerResolves ==
  /\ StartsWith(StringOf(Prop(xlate.schema, KeyRef)), <<"#", "/">>)
  /\ \A i \in 1..Len(PointerSegments) :
       TruthyTree(SubTree(xlate.fullSpec, SubSeq(PointerSegments, 1, i)))

\* The part of C11 that holds: translating a reference never raises; one that
\* resolves gives the translation of the fragment referred to, one that does
\* not gives the accept-anything validator or the two-value severity enum.
C11_TranslatorFallback ==
  IsReference =>
    IF PointerResolves
    THEN xlate.result = openapiToZod(SubTree(xlate.fullSpec, PointerSegments), xlate.fullSpec)
    ELSE \/ xlate.result.typeName = "ZodAny"
         \/ /\ xlate.result.typeName = "ZodEnum"
            /\ xlate.result.values = <<<<"t","e","m","p","o","r","a","r","y">>, <<"p","e","r","m","a","n","e","n","t">>>>
            /\ \E i \in DOMAIN PointerSegments : PointerSegments[i] = EventSeverityType

\* The translated fragment is a string schema, not a reference.
IsStringSchema ==
  /\ xlate.pc = "returned"
  /\ ~TruthyTree(Prop(xlate.schema, KeyRef))
  /\ StringAt(xlate.schema, KeyTypeName) = <<"s","t","r","i","n","g">>

\* The translated fragment is a string schema with an enum constraint.
IsEnumString == IsStringSchema /\ Kind(Prop(xlate.schema, KeyEnum)) = "array"

\* The values the fragment's enum lists.
Listed ==
  { StringOf(Prop(Prop(xlate.schema, KeyEnum), k)) : k \in OwnKeys(Prop(xlate.schema, KeyEnum)) }

\* The strings a validator lets through: those of its closed set, any string
\* for the other validators.
Accepts(v, x) == v.typeName = "ZodEnum" => x \in Range(v.values)

\* Strings inside and outside the enums translated.
Candidates == {<<"y","e","s">>, <<"n","o">>, <<"m","a","y","b","e">>, <<"o","t","h","e","r">>, <<>>}

\* C12: a string fragment with an enum constraint translates to the closed-set
\* validator over the listed values: it accepts a string exactly when the enum
\* lists it, and no format check is added, whatever format the fragment has.
C12_EnumClosedSet ==
  IsEnumString =>
    /\ xlate.result.typeName = "ZodEnum"
    /\ Range(xlate.result.values) = Listed
    /\ Len(xlate.result.values) = Cardinality(OwnKeys(Prop(xlate.schema, KeyEnum)))
    /\ \A x \in Candidates : Accepts(xlate.result, x) <=> x \in Listed
    /\ ~xlate.result.email

\* An enum of three values on a fragment whose format is email.
C12_Witness ==
  /\ IsEnumString
  /\ StringAt(xlate.schema, KeyFormat) = <<"e","m","a","i","l">>
  /\ xlate.result.values = <<<<"y","e","s">>, <<"n","o">>, <<"m","a","y","b","e">>>>

\* C16 (as claimed): the validator of a string fragment that has a
\* description carries that description, with an enum constraint or without.
C16_DescriptionOnBothForms ==
  (IsStringSchema /\ Kind(Prop(xlate.schema, KeyDescription)) = "string") =>
    /\ xlate.result.described
    /\ xlate.result.description = StringOf(Prop(xlate.schema, KeyDescription))

\* The part of C16 that holds: the plain string validator carries it.
C16_PlainStringDescribed ==
  (IsStringSchema /\ ~IsEnumString /\ Kind(Prop(xlate.schema, KeyDescription)) = "string") =>
    /\ xlate.result.typeName = "ZodString"
    /\ xlate.result.described
    /\ xlate.result.description = StringOf(Prop(xlate.schema, KeyDescription))

\* ---------------------------------------------------------- load failures

\* C13 (as claimed): a failed load is logged; outside test mode the process
\* exits with a non-zero status and no tool is registered or served; in test
\* mode the process does not exit and the failure is raised to the caller of
\* the startup routine.
C13_LoadFailureFatal ==
  boot.file \in FileFailures =>
    /\ "Error loading OpenAPI spec" \in boot.logged
    /\ boot.registry = <<>> /\ boot.connects = 0
    /\ boot.mode # "test" => (boot.pc = "exited" /\ boot.exitCode # 0)
    /\ boot.mode = "test" => (boot.pc # "exited" /\ boot.exitCode = 0 /\ boot.raised)

\* The part of C13 that holds: in test mode the loader raises the failure to
\* the startup routine, which logs it and returns with nothing registered.
C13_LoaderRaisesToMain ==
  boot.file \in FileFailures =>
    /\ "Error loading OpenAPI spec" \in boot.logged
    /\ boot.registry = <<>> /\ boot.connects = 0
    /\ boot.mode # "test" => (boot.pc = "exited" /\ boot.exitCode # 0 /\ ~boot.loaderThrew)
    /\ boot.mode = "test" =>
         /\ boot.pc = "returned" /\ boot.exitCode = 0
         /\ boot.loaderThrew /\ ~boot.raised
         /\ "Fatal error in main()" \in boot.logged

\* ------------------------------------------------------------ process start

\* A process that has not evaluated mailgun-mcp.js yet.
UnloadedBoot == [IdleBoot EXCEPT !.pc = "unloaded"]

InitProcess ==
  /\ call = IdleCall /\ lookup = IdleLookup /\ locate = IdleLocate /\ boot = UnloadedBoot
  /\ xlate = IdleXlate /\ calls = IdleCalls

\* The entry point imports mailgun-mcp.js, whose last statement calls main()
\* unless NODE_ENV is 'test'.
ImportModule ==
  /\ boot.pc = "unloaded"
  /\ \E mode \in Modes :
       boot' = [boot EXCEPT !.mode = mode,
                            !.pc = IF mode # "test" THEN "init" ELSE "imported"]
  /\ UNCHANGED <<call, lookup, locate, xlate, calls>>

\* The entry point's own statement, await main(), after the import.
EntryPointMain ==
  /\ boot.entry = "none" /\ boot.pc \in {"imported", "connected"}
  /\ boot' = [boot EXCEPT !.pc = "init", !.entry = "called"]
  /\ UNCHANGED <<call, lookup, locate, xlate, calls>>

\* stdio.js, once its main() returned: server.connect(transport).
EntryPointConnect ==
  /\ boot.entry = "called" /\ boot.pc \in {"connected", "returned"}
  /\ boot' = [boot EXCEPT !.entry = "stdio", !.connects = @ + 1]
  /\ UNCHANGED <<call, lookup, locate, xlate, calls>>

SpecProcess ==
  InitProcess /\ [][ImportModule \/ LoadSpec \/ LoadFails \/ ProcessEndpoint \/ Connect
                    \/ EntryPointMain \/ EntryPointConnect]_vars

\* C14 (as claimed): in a process started through an entry point the startup
\* routine runs once, the document is parsed once, and no registration is
\* attempted for an identifier that is already registered.
C14_StartupRunsOnce == boot.mains <= 1 /\ boot.loads <= 1 /\ boot.duplicates = 0

\* The part of C14 that holds: with NODE_ENV = 'test' the import does not run
\* main(), so the entry point's call is the only one.
C14_OnceInTestMode ==
  boot.mode = "test" => (boot.mains <= 1 /\ boot.loads <= 1 /\ boot.duplicates = 0)

\* Outside test mode the routine runs twice and the second run attempts every
\* registration again.
C14_TwiceOutsideTestMode ==
  (boot.mode = "production" /\ boot.entry # "none" /\ boot.pc = "connected") =>
    /\ boot.mains = 2 /\ boot.loads = 2
    /\ boot.duplicates = Len(boot.registry)

\* ---------------------------------------------------- concurrent invocations

\* The tools and arguments of the invocations in flight together, and the
\* answers their requests may get.
ConcurrentTools == { t \in Tools : t.path \in {<<"/","{","d","}","/","m">>, <<"/","l">>} }

ConcurrentArgs ==
  { <<>>,
    <<Entry(NameD, StrV(<<"a", " ", "/">>))>>,
    <<Entry(NameD, StrV(<<"a", " ", "/">>)), Entry(NameQ, NumV(10))>>,
    <<Entry(NameQ, NullV), Entry(NameH, NumV(0))>> }

ConcurrentStatuses == {200, 404}

ConcurrentBodies == {"object", "malformed"}

\* The end handler of one invocation's request.
EndOf(c, status, body) ==
  Settle([c EXCEPT !.ended = TRUE,
                   !.first = IF c.first = "none" THEN "end" ELSE @,
                   !.status = status, !.body = body],
         OnEndOutcome(status, body))

\* The error handler of one invocation's request.
ErrorOf(c) ==
  Settle([c EXCEPT !.errored = TRUE,
                   !.first = IF c.first = "none" THEN "error" ELSE @],
         OnErrorOutcome)

\* Caller i invokes a tool; c.params is its argument mapping after the call.
InvokeBy(i) ==
  /\ calls[i].c.pc = "idle"
  /\ \E tool \in ConcurrentTools, params \in ConcurrentArgs :
       calls' = [calls EXCEPT ![i] = [c |-> HandlerStart(calls[i].c, tool, params),
                                      given |-> params]]
  /\ UNCHANGED <<call, lookup, locate, boot, xlate>>

\* The response of caller i's request ends.
ResponseEndOf(i) ==
  /\ calls[i].c.requests > 0 /\ ~calls[i].c.ended
  /\ \E status \in ConcurrentStatuses, body \in ConcurrentBodies :
       calls' = [calls EXCEPT ![i].c = EndOf(@, status, body)]
  /\ UNCHANGED <<call, lookup, locate, boot, xlate>>

\* Caller i's request fails.
RequestErrorOf(i) ==
  /\ calls[i].c.requests > 0 /\ ~calls[i].c.errored
  /\ calls' = [calls EXCEPT ![i].c = ErrorOf(@)]
  /\ UNCHANGED <<call, lookup, locate, boot, xlate>>

InvokeConcurrent == \E i \in Callers : InvokeBy(i)

ResponseEndConcurrent == \E i \in Callers : ResponseEndOf(i)

RequestErrorConcurrent == \E i \in Callers : RequestErrorOf(i)

SpecConcurrent ==
  Init /\ [][InvokeConcurrent \/ ResponseEndConcurrent \/ RequestErrorConcurrent]_vars

\* What caller i's invocation comes to when it runs with nothing else in
\* flight: computed from its own tool and arguments and from the events of
\* its own request.
Alone(i) ==
  LET c == calls[i].c
      started == HandlerStart(IdleCall, c.tool, calls[i].given)
      ended(x) == EndOf(x, c.status, c.body)
  IN  IF c.pc = "idle" THEN IdleCall
      ELSE IF c.first = "none" THEN started
      ELSE IF c.first = "end"
           THEN IF c.errored THEN ErrorOf(ended(started)) ELSE ended(started)
           ELSE IF c.ended THEN ended(ErrorOf(started)) ELSE ErrorOf(started)

HasValue(e) == e.v.t \notin {"null", "undefined"}

\* C17 (as claimed): the final path has a "?" only when a key=value pair
\* follows it: entries whose value is null or undefined are left out, and a
\* query set without any other entry gives the substituted path itself.
C17_QueryOnlyForPresentValues ==
  Dispatched =>
    IF \E i \in DOMAIN call.queryParams : HasValue(call.queryParams[i])
    THEN call.finalPath = call.actualPath \o <<"?">> \o PairsFrom(call.queryParams, 1)
    ELSE call.finalPath = call.actualPath

\* The part of C17 that holds: no entry without a value is in the query
\* string, and the path stays bare for a query set with no entry at all.
C17_NullEntriesOmitted ==
  Dispatched =>
    /\ call.queryParams = <<>> => call.finalPath = call.actualPath
    /\ call.queryParams # <<>> =>
         call.finalPath = call.actualPath \o <<"?">>
           \o PairsFrom(SelectSeq(call.queryParams, HasValue), 1)

====
